---- MODULE Spec2Model ----
(***************************************************************************)
(* Model of systemrdl/core/properties.py: the property rule book, the base *)
(* PropertyRule contract (assign_value, get_default), the paired-boolean   *)
(* variant, the alias rules of the counter thresholds, and a               *)
(* representative part of the property catalog.                            *)
(*                                                                         *)
(* One component definition is modelled.  Its type (comp.Signal, ...) is   *)
(* fixed when it is constructed; its `properties` dictionary is the only   *)
(* state the rules mutate.  `last` records the most recent call, its       *)
(* arguments, the dictionary before the call, and what the call produced.  *)
(***************************************************************************)
EXTENDS Integers, Sequences, FiniteSets, TLC

VARIABLES
    comp_type,   \* type(comp_def): the component definition's class
    properties,  \* comp_def.properties / node.inst.properties: name -> value
    castable,    \* the relation expressions.is_castable decides
    user_properties,  \* PropertyRuleBook.user_properties: name -> rule
    last,        \* the most recent call and its outcome
    nops         \* number of assign_value calls made so far

vars == <<comp_type, properties, castable, user_properties, last, nops>>

\* Most assign_value calls explored on one component definition (queries are
\* not counted: they write nothing).
MaxOps == 2

(***************************************************************************)
(* Values.  Every value is a record of one shape:                          *)
(*   form : how the object reaches assign_value ("bool" a Python bool,     *)
(*          "precedence" a PrecedenceType literal, "expr" an Expr          *)
(*          instance, "int" a plain Python int, "none" Python's None)      *)
(*   type : the Python type, or for an Expr what predict_type() returns    *)
(*   b, n, s : the payload (boolean, integer, text or instance path)       *)
(***************************************************************************)
BoolV(x) == [form |-> "bool", type |-> "bool", b |-> x, n |-> 0, s |-> ""]
IntExpr(x) == [form |-> "expr", type |-> "int", b |-> FALSE, n |-> x, s |-> ""]
StrExpr(x) == [form |-> "expr", type |-> "str", b |-> FALSE, n |-> 0, s |-> x]
RefExpr(t, path) == [form |-> "expr", type |-> t, b |-> FALSE, n |-> 0, s |-> path]
PrecedenceV(x) == [form |-> "precedence", type |-> "PrecedenceType", b |-> FALSE, n |-> 0, s |-> x]
PyInt(x) == [form |-> "int", type |-> "int", b |-> FALSE, n |-> x, s |-> ""]
PyStr(x) == [form |-> "str", type |-> "str", b |-> FALSE, n |-> 0, s |-> x]
None == [form |-> "none", type |-> "NoneType", b |-> FALSE, n |-> 0, s |-> ""]

\* Python truthiness of a stored value, as `not value` sees it.
Truthy(v) ==
    CASE v.form = "bool" -> v.b
      [] v.form = "int" -> v.n # 0
      [] v.form = "str" -> v.s # ""
      [] v.form = "none" -> FALSE
      [] OTHER -> TRUE

\* Paths of the instances a reference value can name.
OwnPath == "top.reg.F"
OtherPath == "top.reg.G"
SignalPath == "top.S"

\* The values the compiler hands to assign_value.
AssignValues ==
    { BoolV(TRUE), BoolV(FALSE), IntExpr(15), IntExpr(16), StrExpr("text"),
      RefExpr("Field", OwnPath), RefExpr("Field", OtherPath),
      RefExpr("Signal", SignalPath), PrecedenceV("hw") }

\* The component classes of systemrdl.component.
CompTypes == {"Signal", "Field", "Reg", "Regfile", "Mem", "Addrmap"}

\* The value types the catalog names in valid_types.
ValueTypes == {"bool", "int", "str", "Field", "Signal", "PrecedenceType", "UserEnum"}

\* Instance nodes handed to get_default: name and declared width.
InstName == "inst0"
Widths == {4, 16}
Nodes == [name : {InstName}, width : Widths]
NoNode == [name |-> "", width |-> 0]

(***************************************************************************)
(* expressions.is_castable is a collaborator: the relation is chosen once, *)
(* among the exact-type relation and the one where bool and int convert    *)
(* into each other.                                                        *)
(***************************************************************************)
CastExact == { <<t, t>> : t \in ValueTypes }
CastBoolInt == CastExact \cup { <<"bool", "int">>, <<"int", "bool">> }
CastRelations == { CastExact, CastBoolInt }

is_castable(src, dst) == <<src, dst>> \in castable

(***************************************************************************)
(* The property catalog.  Each rule is the class attributes of one Prop_*  *)
(* class: bindable_to, valid_types (in order), default, dyn_assign_allowed,*)
(* mutex_group ("" for None), and for the paired-boolean rules the         *)
(* opposite_property.  base names the class the rule derives from.         *)
(***************************************************************************)
AllCompTypes == {"Addrmap", "Field", "Mem", "Reg", "Regfile", "Signal"}

Rule(base, bind, types, dflt, dyn, mutex, opp) ==
    [ base |-> base, bindable_to |-> bind, valid_types |-> types,
      default |-> dflt, dyn_assign_allowed |-> dyn, mutex_group |-> mutex,
      opposite_property |-> opp ]

Prop_name == Rule("PropertyRule", AllCompTypes, <<"str">>, PyStr(""), TRUE, "", "")
Prop_errextbus ==
    Rule("PropertyRule", {"Addrmap", "Reg", "Regfile"}, <<"bool">>, BoolV(FALSE), FALSE, "", "")
Prop_signalwidth == Rule("PropertyRule", {"Signal"}, <<"int">>, None, FALSE, "", "")
Prop_sync ==
    Rule("PropertyRuleBoolPair", {"Signal"}, <<"bool">>, BoolV(TRUE), TRUE, "N", "async")
Prop_async ==
    Rule("PropertyRuleBoolPair", {"Signal"}, <<"bool">>, BoolV(FALSE), TRUE, "N", "sync")
Prop_next == Rule("PropertyRule", {"Field"}, <<"Field">>, None, TRUE, "", "")
Prop_reset == Rule("PropertyRule", {"Field"}, <<"int", "Field">>, None, TRUE, "", "")
Prop_fieldwidth == Rule("PropertyRule", {"Field"}, <<"int">>, None, FALSE, "", "")
Prop_threshold ==
    Rule("PropertyRule", {"Field"}, <<"bool", "int", "Signal">>, BoolV(FALSE), TRUE,
         "incrthreshold alias", "")
Prop_saturate ==
    Rule("PropertyRule", {"Field"}, <<"bool", "int", "Signal">>, BoolV(FALSE), TRUE,
         "incrsaturate alias", "")
Prop_incrthreshold ==
    Rule("PropertyRule", {"Field"}, <<"bool", "int", "Signal">>, BoolV(FALSE), TRUE,
         "incrthreshold alias", "")
Prop_incrsaturate ==
    Rule("PropertyRule", {"Field"}, <<"bool", "int", "Signal">>, BoolV(FALSE), TRUE,
         "incrsaturate alias", "")
Prop_precedence ==
    Rule("PropertyRule", {"Field"}, <<"PrecedenceType">>, PrecedenceV("sw"), TRUE, "", "")
Prop_regwidth == Rule("PropertyRule", {"Reg"}, <<"int">>, PyInt(32), FALSE, "", "")
Prop_accesswidth == Rule("PropertyRule", {"Reg"}, <<"int">>, None, TRUE, "", "")
Prop_msb0 ==
    Rule("PropertyRuleBoolPair", {"Addrmap"}, <<"bool">>, BoolV(FALSE), FALSE, "M", "lsb0")
Prop_lsb0 ==
    Rule("PropertyRuleBoolPair", {"Addrmap"}, <<"bool">>, BoolV(TRUE), FALSE, "M", "msb0")

PropNames ==
    { "name", "errextbus", "signalwidth", "sync", "async", "next", "reset",
      "fieldwidth", "threshold", "saturate", "incrthreshold", "incrsaturate",
      "precedence", "regwidth", "accesswidth", "msb0", "lsb0" }

\* PropertyRuleBook.rdl_properties: the rule registered under each name.
rdl_properties(p) ==
    CASE p = "name" -> Prop_name
      [] p = "errextbus" -> Prop_errextbus
      [] p = "signalwidth" -> Prop_signalwidth
      [] p = "sync" -> Prop_sync
      [] p = "async" -> Prop_async
      [] p = "next" -> Prop_next
      [] p = "reset" -> Prop_reset
      [] p = "fieldwidth" -> Prop_fieldwidth
      [] p = "threshold" -> Prop_threshold
      [] p = "saturate" -> Prop_saturate
      [] p = "incrthreshold" -> Prop_incrthreshold
      [] p = "incrsaturate" -> Prop_incrsaturate
      [] p = "precedence" -> Prop_precedence
      [] p = "regwidth" -> Prop_regwidth
      [] p = "accesswidth" -> Prop_accesswidth
      [] p = "msb0" -> Prop_msb0
      [] p = "lsb0" -> Prop_lsb0

(***************************************************************************)
(* PropertyRuleBook.  A class name is [prefix, stem]: "Prop_sync" is        *)
(* prefix "Prop_" and stem "sync"; a class not named Prop_* has an empty    *)
(* prefix.  No stem of the catalog contains "Prop_", so replacing "Prop_"   *)
(* by "" in a name leaves its stem.                                        *)
(***************************************************************************)
ClassNamed(prefix, stem) == [prefix |-> prefix, stem |-> stem]
PropertyRule == ClassNamed("", "PropertyRule")
PropertyRuleBoolPair == ClassNamed("", "PropertyRuleBoolPair")
PropClass(p) == ClassNamed("Prop_", p)

\* cls.__subclasses__(): the classes declared with cls as their base
Subclasses(cls) ==
    IF cls = PropertyRule
    THEN {PropertyRuleBoolPair}
         \cup { PropClass(p) : p \in { q \in PropNames : rdl_properties(q).base = "PropertyRule" } }
    ELSE IF cls = PropertyRuleBoolPair
    THEN { PropClass(p) : p \in { q \in PropNames : rdl_properties(q).base = "PropertyRuleBoolPair" } }
    ELSE {}

RECURSIVE get_all_subclasses(_)
get_all_subclasses(cls) ==
    Subclasses(cls) \cup UNION { get_all_subclasses(c) : c \in Subclasses(cls) }

\* PropertyRule.get_name: the class name with "Prop_" replaced by ""
get_name(cls) == cls.stem

\* PropertyRuleBook.__init__: one rule per discovered class named Prop_*,
\* under the key get_name gives
RuleBook_rdl_properties ==
    LET found == { c \in get_all_subclasses(PropertyRule) : c.prefix = "Prop_" }
    IN [ key \in { get_name(c) : c \in found } |->
            CHOOSE c \in found : get_name(c) = key ]

EmptyBook == [k \in {} |-> PropertyRule]
NoRule == ClassNamed("", "None")

\* A rule a user registered under a name, and the names users register.
UserRule(name) == ClassNamed("user", name)
UserNames == {"vendor_prop", "sync"}
LookupNames == PropNames \cup UserNames \cup {"nosuch"}

\* Mutant: the user-registered rules are consulted first.
lookup_property_userfirst(prop_name, user) ==
    IF prop_name \in DOMAIN user
    THEN user[prop_name]
    ELSE IF prop_name \in DOMAIN RuleBook_rdl_properties
    THEN RuleBook_rdl_properties[prop_name]
    ELSE NoRule

\* PropertyRuleBook.lookup_property
lookup_property(prop_name, user) ==
    IF prop_name \in DOMAIN RuleBook_rdl_properties
    THEN RuleBook_rdl_properties[prop_name]
    ELSE IF prop_name \in DOMAIN user
    THEN user[prop_name]
    ELSE NoRule

(***************************************************************************)
(* The property dictionary: a function whose domain is the set of keys.    *)
(***************************************************************************)
EmptyDict == [k \in {} |-> None]
Has(d, k) == k \in DOMAIN d
SetItem(d, k, v) == [x \in (DOMAIN d) \cup {k} |-> IF x = k THEN v ELSE d[x]]
DelItem(d, k) == [x \in (DOMAIN d) \ {k} |-> d[x]]

(***************************************************************************)
(* The message handler.  fatal records the diagnostic and raises, so the   *)
(* call that reports it ends there; error records it and returns.  A call  *)
(* result is [raised, severity, msg, properties]: whether an exception     *)
(* left the call, the diagnostic recorded, and the dictionary afterwards.  *)
(***************************************************************************)
Returned(d) == [raised |-> "", severity |-> "", msg |-> "", properties |-> d]
msg_fatal(text, d) ==
    [raised |-> "RDLCompileFatal", severity |-> "fatal", msg |-> text, properties |-> d]
msg_error(text, d) ==
    [raised |-> "", severity |-> "error", msg |-> text, properties |-> d]
RuntimeError(d) ==
    [raised |-> "RuntimeError", severity |-> "", msg |-> "", properties |-> d]

(***************************************************************************)
(* PropertyRule.assign_value                                               *)
(***************************************************************************)
\* Mutant: the binding check accepts every component type.
BindableCheck_any(p, ctype) == TRUE

\* line 63: the property is allowed in this component
BindableCheck(p, ctype) == ctype \in rdl_properties(p).bindable_to

\* lines 75-84: unpack the true type of the value ("" where the code raises)
assign_type(value) ==
    CASE value.form = "bool" -> "bool"
      [] value.form = "precedence" -> "PrecedenceType"
      [] value.form = "expr" -> value.type
      [] value.form = "enum" -> "UserEnum"
      [] OTHER -> ""

\* Mutant: only the first entry of valid_types is tried.
CompatibleCheck_first(p, value) ==
    is_castable(assign_type(value), rdl_properties(p).valid_types[1])

\* lines 87-89: the value's type is castable to one of valid_types
CompatibleCheck(p, value) ==
    \E i \in 1..Len(rdl_properties(p).valid_types) :
        is_castable(assign_type(value), rdl_properties(p).valid_types[i])

\* Mutant: an incompatible value is reported with msg.error, which returns,
\* so the value is stored all the same.
PropertyRule_assign_value_recoverable(p, ctype, d, value) ==
    IF ~BindableCheck(p, ctype)
    THEN msg_fatal("not valid for component", d)
    ELSE IF assign_type(value) = ""
    THEN RuntimeError(d)
    ELSE IF ~CompatibleCheck(p, value)
    THEN msg_error("incompatible assignment", SetItem(d, p, value))
    ELSE Returned(SetItem(d, p, value))

PropertyRule_assign_value(p, ctype, d, value) ==
    IF ~BindableCheck(p, ctype)
    THEN msg_fatal("not valid for component", d)
    ELSE IF assign_type(value) = ""
    THEN RuntimeError(d)
    ELSE IF ~CompatibleCheck(p, value)
    THEN msg_fatal("incompatible assignment", d)
    ELSE Returned(SetItem(d, p, value))

(***************************************************************************)
(* PropertyRuleBoolPair.assign_value: the opposite is cleared              *)
(***************************************************************************)
\* Mutant: the opposite is left in place.
PropertyRuleBoolPair_assign_value_keep(p, ctype, d, value) ==
    PropertyRule_assign_value(p, ctype, d, value)

\* Mutant: the opposite is cleared only when the value assigned is true.
PropertyRuleBoolPair_assign_value_iftrue(p, ctype, d, value) ==
    LET r == PropertyRule_assign_value(p, ctype, d, value)
        opp == rdl_properties(p).opposite_property
    IN IF r.raised # "" THEN r
       ELSE IF Has(r.properties, opp) /\ Truthy(value)
            THEN Returned(DelItem(r.properties, opp))
            ELSE r

\* Mutant: the opposite is cleared before the base assignment is tried, so
\* a failed assignment clears it too.
PropertyRuleBoolPair_assign_value_clearfirst(p, ctype, d, value) ==
    LET opp == rdl_properties(p).opposite_property
    IN PropertyRule_assign_value(p, ctype, IF Has(d, opp) THEN DelItem(d, opp) ELSE d, value)

PropertyRuleBoolPair_assign_value(p, ctype, d, value) ==
    LET r == PropertyRule_assign_value(p, ctype, d, value)
        opp == rdl_properties(p).opposite_property
    IN IF r.raised # "" THEN r
       ELSE IF Has(r.properties, opp)
            THEN Returned(DelItem(r.properties, opp))
            ELSE r

(***************************************************************************)
(* The alias rules of the counter thresholds                               *)
(***************************************************************************)
\* Mutant: the canonical name is written even when the base call raised.
Prop_threshold_assign_value_always(ctype, d, value) ==
    LET r == PropertyRule_assign_value("threshold", ctype, d, value)
    IN [r EXCEPT !.properties = SetItem(r.properties, "incrthreshold", value)]

Prop_threshold_assign_value(ctype, d, value) ==
    LET r == PropertyRule_assign_value("threshold", ctype, d, value)
    IN IF r.raised # "" THEN r
       ELSE Returned(SetItem(r.properties, "incrthreshold", value))

\* Mutant: the alias writes the other canonical name.
Prop_saturate_assign_value_wrongkey(ctype, d, value) ==
    LET r == PropertyRule_assign_value("saturate", ctype, d, value)
    IN IF r.raised # "" THEN r
       ELSE Returned(SetItem(r.properties, "incrthreshold", value))

Prop_saturate_assign_value(ctype, d, value) ==
    LET r == PropertyRule_assign_value("saturate", ctype, d, value)
    IN IF r.raised # "" THEN r
       ELSE Returned(SetItem(r.properties, "incrsaturate", value))

Prop_incrthreshold_assign_value(ctype, d, value) ==
    LET r == PropertyRule_assign_value("incrthreshold", ctype, d, value)
    IN IF r.raised # "" THEN r
       ELSE Returned(SetItem(r.properties, "incrthreshold", value))

Prop_incrsaturate_assign_value(ctype, d, value) ==
    LET r == PropertyRule_assign_value("incrsaturate", ctype, d, value)
    IN IF r.raised # "" THEN r
       ELSE Returned(SetItem(r.properties, "incrsaturate", value))

\* Method resolution: the assign_value the rule registered under p runs.
assign_value(p, ctype, d, value) ==
    CASE p = "threshold" -> Prop_threshold_assign_value(ctype, d, value)
      [] p = "saturate" -> Prop_saturate_assign_value(ctype, d, value)
      [] p = "incrthreshold" -> Prop_incrthreshold_assign_value(ctype, d, value)
      [] p = "incrsaturate" -> Prop_incrsaturate_assign_value(ctype, d, value)
      [] OTHER ->
           IF rdl_properties(p).base = "PropertyRuleBoolPair"
           THEN PropertyRuleBoolPair_assign_value(p, ctype, d, value)
           ELSE PropertyRule_assign_value(p, ctype, d, value)

(***************************************************************************)
(* get_default, and the node's get_property that Prop_accesswidth calls    *)
(***************************************************************************)
RECURSIVE get_default(_, _, _)

\* PropertyRule.get_default: the static default
PropertyRule_get_default(p) == rdl_properties(p).default

\* Mutant: the opposite's stored value is returned without negating it.
PropertyRuleBoolPair_get_default_same(p, d) ==
    LET opp == rdl_properties(p).opposite_property
    IN IF Has(d, opp) THEN BoolV(Truthy(d[opp])) ELSE rdl_properties(p).default

\* PropertyRuleBoolPair.get_default: the opposite's stored value, negated
PropertyRuleBoolPair_get_default(p, d) ==
    LET opp == rdl_properties(p).opposite_property
    IN IF Has(d, opp) THEN BoolV(~Truthy(d[opp])) ELSE rdl_properties(p).default

Prop_name_get_default(node) == PyStr(node.name)
Prop_signalwidth_get_default(node) == PyInt(node.width)
Prop_fieldwidth_get_default(node) == PyInt(node.width)

\* Node.get_property: the stored value, else the rule's default resolution
get_property(p, node, d) == IF Has(d, p) THEN d[p] ELSE get_default(p, node, d)

\* Mutant: the instance's declared width is returned.
Prop_accesswidth_get_default_width(node, d) == PyInt(node.width)

Prop_accesswidth_get_default(node, d) == get_property("regwidth", node, d)

\* Method resolution: the get_default the rule registered under p runs.
get_default(p, node, d) ==
    CASE p = "name" -> Prop_name_get_default(node)
      [] p = "signalwidth" -> Prop_signalwidth_get_default(node)
      [] p = "fieldwidth" -> Prop_fieldwidth_get_default(node)
      [] p = "accesswidth" -> Prop_accesswidth_get_default(node, d)
      [] OTHER ->
           IF rdl_properties(p).base = "PropertyRuleBoolPair"
           THEN PropertyRuleBoolPair_get_default(p, d)
           ELSE PropertyRule_get_default(p)

(***************************************************************************)
(* validate.  By the validate phase the instance tree exists: the node     *)
(* carries its path and external flag, an integer expression has been      *)
(* folded to a Python int, and a reference to a field is the FieldNode of   *)
(* that field (its path, and in n its inst.width).  A validate call yields *)
(* [raised, errors]: the exception that left it, and the messages it       *)
(* handed to msg.error, which records each and returns.                    *)
(***************************************************************************)
FieldNode(path, width) ==
    [form |-> "node", type |-> "Field", b |-> FALSE, n |-> width, s |-> path]

\* The nodes handed to validate: the instance at OwnPath.
ValidateNodes ==
    [name : {InstName}, width : Widths, external : BOOLEAN, path : {OwnPath}]

\* Fields and signals are never external instances.
NodesOf(ctype) ==
    { node \in ValidateNodes : ctype \in {"Field", "Signal"} => ~node.external }

\* The widths the field a value refers to can have: any, unless the value
\* names the node itself or names no field.
RefWidths(v, node) ==
    IF v.form = "expr" /\ v.type = "Field" /\ v.s # node.path
    THEN Widths ELSE {node.width}

\* The value validate receives for a stored value: the referenced field
\* other than the node itself has width w.
Resolved(v, node, w) ==
    CASE v.form = "expr" /\ v.type = "int" -> PyInt(v.n)
      [] v.form = "expr" /\ v.type = "Field" ->
           FieldNode(v.s, IF v.s = node.path THEN node.width ELSE w)
      [] OTHER -> v

Checked(errs) == [raised |-> "", errors |-> errs]
ValidateRuntimeError == [raised |-> "RuntimeError", errors |-> {}]

\* value == True, as Python compares a bool or an int with True
EqTrue(v) == (v.form = "bool" /\ v.b) \/ (v.form = "int" /\ v.n = 1)

\* PropertyRule.validate: no checks
PropertyRule_validate(node, value) == Checked({})

\* Mutant: the error is raised whenever the value is true.
Prop_errextbus_validate_always(node, value) ==
    Checked(IF EqTrue(value) THEN {"errextbus on an instance that is not external"} ELSE {})

Prop_errextbus_validate(node, value) ==
    Checked(IF node.external = FALSE /\ EqTrue(value)
            THEN {"errextbus on an instance that is not external"} ELSE {})

\* Mutant: no self-reference check.
Prop_next_validate_nocheck(node, value) == Checked({})

Prop_next_validate(node, value) ==
    Checked(IF node.path = value.s THEN {"cannot reference itself in next"} ELSE {})

\* Mutant: the reset value is compared with > in place of >=.
ResetExceedsWidth_gt(node, value) == value.n > 2 ^ node.width

\* line 419: the reset value cannot be larger than can fit in the field
ResetExceedsWidth(node, value) == value.n >= 2 ^ node.width

\* Mutant: the sizes are compared only when the reference is to the node itself.
ResetSizeMismatch_selfonly(node, value) ==
    node.path = value.s /\ node.width # value.n

\* line 428: the referenced field is not of the same size
ResetSizeMismatch(node, value) == node.width # value.n

Prop_reset_validate(node, value) ==
    IF value.form = "int"
    THEN Checked(IF ResetExceedsWidth(node, value)
                 THEN {"reset value exceeds the field's width"} ELSE {})
    ELSE IF value.form = "node" /\ value.type = "Field"
    THEN Checked((IF ResetSizeMismatch(node, value)
                  THEN {"reset reference is not the same size"} ELSE {})
                 \cup
                 (IF node.path = value.s
                  THEN {"cannot reference itself in reset"} ELSE {}))
    ELSE ValidateRuntimeError

\* Method resolution: the validate the rule registered under p runs.
validate(p, node, value) ==
    CASE p = "errextbus" -> Prop_errextbus_validate(node, value)
      [] p = "next" -> Prop_next_validate(node, value)
      [] p = "reset" -> Prop_reset_validate(node, value)
      [] OTHER -> PropertyRule_validate(node, value)

(***************************************************************************)
(* The state machine                                                       *)
(***************************************************************************)
\* The record of a call: its arguments, the exception and diagnostic it
\* produced, what it returned, the dictionary before it (pre), and whether it
\* repeats the call before it (then prev_result is what that call returned).
Call(op, p, value, node, r, result, pre, repeat, prev_result) ==
    [ op |-> op, prop |-> p, value |-> value, node |-> node,
      raised |-> r.raised, severity |-> r.severity, msg |-> r.msg,
      result |-> result, pre |-> pre,
      repeat |-> repeat, prev_result |-> prev_result ]

Repeats(op, p, node) == last.op = op /\ last.prop = p /\ last.node = node

Init ==
    /\ comp_type \in CompTypes
    /\ properties = EmptyDict
    /\ castable \in CastRelations
    /\ user_properties = EmptyBook
    /\ last = Call("init", "", None, NoNode, Returned(EmptyDict), None, EmptyDict,
                   FALSE, None)
    /\ nops = 0

\* The compiler assigns property p the value v on the component definition.
\* Assignments come first: get_default and validate take a node of the
\* instance tree, which is built from the definitions once they are assigned.
AssignValue ==
    /\ nops < MaxOps
    /\ last.op \in {"init", "assign_value"}
    /\ \E p \in PropNames, v \in AssignValues :
         LET r == assign_value(p, comp_type, properties, v)
         IN /\ properties' = r.properties
            /\ last' = Call("assign_value", p, v, NoNode, r, None, properties,
                             FALSE, None)
    /\ nops' = nops + 1
    /\ UNCHANGED <<comp_type, castable, user_properties>>

\* Mutant: the resolved default is cached in the dictionary.
GetDefault_caching ==
    /\ \E p \in PropNames, node \in Nodes :
         /\ comp_type \in rdl_properties(p).bindable_to
         /\ ~Has(properties, p)
         /\ last' = Call("get_default", p, None, node, Returned(properties),
                         get_default(p, node, properties), properties,
                         Repeats("get_default", p, node),
                         IF Repeats("get_default", p, node) THEN last.result ELSE None)
         /\ properties' = SetItem(properties, p, get_default(p, node, properties))
    /\ UNCHANGED <<comp_type, castable, user_properties, nops>>

\* A query of a property p of this component, never explicitly set, resolves
\* its default ("Used when the user queries a property, and it was not
\* explicitly set").
GetDefault ==
    /\ \E p \in PropNames, node \in Nodes :
         /\ comp_type \in rdl_properties(p).bindable_to
         /\ ~Has(properties, p)
         /\ last' = Call("get_default", p, None, node, Returned(properties),
                         get_default(p, node, properties), properties,
                         Repeats("get_default", p, node),
                         IF Repeats("get_default", p, node) THEN last.result ELSE None)
    /\ UNCHANGED <<comp_type, properties, castable, user_properties, nops>>

\* The record of a validate call: as Call, and the errors it recorded.
ValidateCall(p, value, node, r, pre) ==
    [ op |-> "validate", prop |-> p, value |-> value, node |-> node,
      raised |-> r.raised, severity |-> IF r.errors = {} THEN "" ELSE "error",
      msg |-> "", result |-> None, pre |-> pre,
      repeat |-> FALSE, prev_result |-> None, errors |-> r.errors ]

\* The validate phase checks the value of a property p of this component:
\* the value assigned, or the default resolved, when there is one.
Validate ==
    /\ \E p \in PropNames, node \in NodesOf(comp_type) :
       \E w \in RefWidths(get_property(p, node, properties), node) :
         /\ comp_type \in rdl_properties(p).bindable_to
         /\ get_property(p, node, properties) # None
         /\ LET value == Resolved(get_property(p, node, properties), node, w)
            IN last' = ValidateCall(p, value, node, validate(p, node, value), properties)
    /\ UNCHANGED <<comp_type, properties, castable, user_properties, nops>>

\* The record of a rule book call: as Call, and the rule returned.
BookCall(op, name, rule) ==
    [ op |-> op, prop |-> name, value |-> None, node |-> NoNode,
      raised |-> "", severity |-> "", msg |-> "", result |-> None,
      pre |-> properties, repeat |-> FALSE, prev_result |-> None, rule |-> rule ]

\* A user-defined property is registered in the rule book.
RegisterUser ==
    /\ \E name \in UserNames :
         /\ user_properties' =
               [k \in (DOMAIN user_properties) \cup {name} |->
                   IF k = name THEN UserRule(name) ELSE user_properties[k]]
         /\ last' = BookCall("register", name, UserRule(name))
    /\ UNCHANGED <<comp_type, properties, castable, nops>>

\* The compiler resolves a property name to its rule.
LookupProperty ==
    /\ \E name \in LookupNames :
         last' = BookCall("lookup_property", name, lookup_property(name, user_properties))
    /\ UNCHANGED <<comp_type, properties, castable, user_properties, nops>>

Next == AssignValue \/ GetDefault \/ Validate

NextBook == RegisterUser \/ LookupProperty

Spec == Init /\ [][Next]_vars

\* The rule book alone: registrations and lookups.
SpecBook == Init /\ [][NextBook]_vars

(***************************************************************************)
(* Properties                                                              *)
(***************************************************************************)
Assigned == last.op = "assign_value"
Succeeded == last.raised = "" /\ last.severity = ""
Defaulted == last.op = "get_default"

\* The catalog's binding set and type list read directly, and castability
\* of a value to one of a property's valid types.
Bindable(p) == comp_type \in rdl_properties(p).bindable_to
Fits(p, v) ==
    \E i \in 1..Len(rdl_properties(p).valid_types) :
        <<assign_type(v), rdl_properties(p).valid_types[i]>> \in castable

\* C1 (as stated): an assignment of p on a component of kind k succeeds iff
\* k is in p.bindable_to, and otherwise it is reported as fatal.
C1_SucceedsIffBindable ==
    Assigned =>
        /\ Succeeded <=> Bindable(last.prop)
        /\ ~Bindable(last.prop) => last.severity = "fatal"

\* C1 (amended): for a value whose kind is castable to one of p.valid_types,
\* the assignment succeeds iff k is in p.bindable_to; whatever the value, on
\* a kind outside p.bindable_to it is reported as fatal, raises, and leaves
\* the dictionary as it was.
C1_BindingDecidesForFittingValue ==
    Assigned =>
        /\ Fits(last.prop, last.value) => (Succeeded <=> Bindable(last.prop))
        /\ ~Bindable(last.prop) =>
              /\ last.severity = "fatal"
              /\ last.msg = "not valid for component"
              /\ last.raised # ""
              /\ properties = last.pre

C1_Witness ==
    /\ Assigned /\ ~Bindable(last.prop) /\ Fits(last.prop, last.value)
    /\ last.severity = "fatal"
    /\ last.pre # EmptyDict

\* C2: no key of the property dictionary names a property whose bindable_to
\* excludes the component's kind.
C2_StoredOnlyWhereBindable == \A k \in DOMAIN properties : Bindable(k)

C2_Witness ==
    /\ Assigned /\ Succeeded /\ last.prop = "threshold"
    /\ Has(properties, "incrthreshold") /\ ~Has(last.pre, "incrthreshold")
    /\ Has(last.pre, "name")

\* C3: of each paired-boolean relation (sync/async, msb0/lsb0) at most one
\* property is in the dictionary; after assigning one where the other was
\* set, exactly one of the two remains.
PairedProps == {"sync", "async", "msb0", "lsb0"}
Opposite(p) ==
    CASE p = "sync" -> "async" [] p = "async" -> "sync"
      [] p = "msb0" -> "lsb0" [] p = "lsb0" -> "msb0"

C3_AtMostOneOfPair ==
    /\ \A p \in PairedProps : ~(Has(properties, p) /\ Has(properties, Opposite(p)))
    /\ (Assigned /\ last.prop \in PairedProps /\ Has(last.pre, Opposite(last.prop))) =>
          Cardinality({last.prop, Opposite(last.prop)} \cap DOMAIN properties) = 1

C3_Witness ==
    /\ Assigned /\ Succeeded /\ last.prop = "sync"
    /\ Has(last.pre, "async")
    /\ Has(properties, "sync") /\ ~Has(properties, "async")

\* C4: whenever an alias name (threshold, saturate) is in the dictionary, its
\* canonical name (incrthreshold, incrsaturate) maps to the identical value.
AliasProps == {"threshold", "saturate"}
Canonical(p) == CASE p = "threshold" -> "incrthreshold" [] p = "saturate" -> "incrsaturate"

C4_AliasNeverDiverges ==
    \A a \in AliasProps :
        Has(properties, a) =>
            Has(properties, Canonical(a)) /\ properties[Canonical(a)] = properties[a]

\* C5: right after a successful assignment of an alias (threshold, saturate)
\* with value v, the alias name and its canonical name both hold v.
C5_AliasWritesBoth ==
    (Assigned /\ Succeeded /\ last.prop \in AliasProps) =>
        /\ Has(properties, last.prop) /\ properties[last.prop] = last.value
        /\ Has(properties, Canonical(last.prop))
        /\ properties[Canonical(last.prop)] = last.value

C5_Witness ==
    /\ Assigned /\ Succeeded /\ last.prop = "saturate"
    /\ Has(last.pre, "incrsaturate") /\ last.pre["incrsaturate"] # last.value
    /\ properties["saturate"] = last.value /\ properties["incrsaturate"] = last.value

C7_FittingValueStored ==
    (Assigned /\ Fits(last.prop, last.value)) =>
        /\ Succeeded
        /\ Has(properties, last.prop) /\ properties[last.prop] = last.value

\* C7 (amended): on a component kind p binds to, an assignment of p with a
\* value v castable to one of p.valid_types raises nothing and records no
\* diagnostic, and afterwards the dictionary holds v under p's name,
\* whatever it held before.
C7_FittingValueStoredWhereBindable ==
    (Assigned /\ Bindable(last.prop) /\ Fits(last.prop, last.value)) =>
        /\ Succeeded
        /\ Has(properties, last.prop) /\ properties[last.prop] = last.value

C7_Witness ==
    /\ Assigned /\ Succeeded /\ last.prop = "reset"
    /\ last.value.type = "Field"
    /\ Has(last.pre, "reset") /\ last.pre["reset"] # last.value
    /\ properties["reset"] = last.value

StaticPairDefault(p) ==
    CASE p = "sync" -> TRUE [] p = "async" -> FALSE
      [] p = "msb0" -> FALSE [] p = "lsb0" -> TRUE

C9_PairDefault ==
    (Defaulted /\ last.prop \in PairedProps) =>
        IF Has(properties, Opposite(last.prop))
        THEN last.result = BoolV(~Truthy(properties[Opposite(last.prop)]))
        ELSE last.result = BoolV(StaticPairDefault(last.prop))

C9_Witness ==
    /\ Defaulted /\ last.prop = "lsb0"
    /\ Has(properties, "msb0") /\ properties["msb0"] = BoolV(TRUE)
    /\ last.result = BoolV(FALSE)

\* C10 (as stated): the default of accesswidth is the register's own width:
\* with regwidth unset on a register declared 16 bits wide it is 16, and
\* with regwidth set it is that value.
C10_AccesswidthIsDeclaredWidth ==
    (Defaulted /\ last.prop = "accesswidth") =>
        IF Has(properties, "regwidth")
        THEN last.result = properties["regwidth"]
        ELSE last.result.n = last.node.width

\* C10 (amended): the default of accesswidth is the value of the regwidth
\* property: with regwidth set it is that value, and with regwidth unset it
\* is regwidth's static default, 32, whatever width the register instance
\* was declared with.
C10_AccesswidthIsRegwidth ==
    (Defaulted /\ last.prop = "accesswidth") =>
        IF Has(properties, "regwidth")
        THEN last.result = properties["regwidth"]
        ELSE last.result = PyInt(32)

C10_Witness ==
    /\ Defaulted /\ last.prop = "accesswidth"
    /\ ~Has(properties, "regwidth") /\ last.node.width = 16
    /\ last.result = PyInt(32)

Validated == last.op = "validate"

\* C11: validating reset with an integer value v on a field of width w
\* records an error iff v >= 2^w, and the call returns (nothing is raised).
C11_ResetExceedsWidth ==
    (Validated /\ last.prop = "reset" /\ last.value.form = "int") =>
        /\ ("reset value exceeds the field's width" \in last.errors)
              <=> (last.value.n >= 2 ^ last.node.width)
        /\ last.errors \subseteq {"reset value exceeds the field's width"}
        /\ last.raised = ""

C11_Witness ==
    /\ Validated /\ last.prop = "reset"
    /\ last.value = PyInt(16) /\ last.node.width = 4
    /\ last.errors = {"reset value exceeds the field's width"}
    /\ last.raised = ""

\* C12: validating next, or a reset that refers to a field, records the
\* 'cannot reference itself' error iff the referenced field's path is the
\* path of the node validated.
C12_SelfReference ==
    /\ (Validated /\ last.prop = "next") =>
          (("cannot reference itself in next" \in last.errors)
              <=> (last.value.s = last.node.path))
    /\ (Validated /\ last.prop = "reset" /\ last.value.form = "node") =>
          (("cannot reference itself in reset" \in last.errors)
              <=> (last.value.s = last.node.path))

C12_Witness ==
    /\ Validated /\ last.prop = "next"
    /\ last.value.s = OwnPath /\ last.node.path = OwnPath
    /\ last.errors = {"cannot reference itself in next"}

\* C13: validating a reset that refers to a field records the size error iff
\* the referenced field's width differs from the node's, whether or not the
\* self-reference error is recorded in the same call; the call returns.
C13_ResetReferenceSize ==
    (Validated /\ last.prop = "reset" /\ last.value.form = "node") =>
        /\ ("reset reference is not the same size" \in last.errors)
              <=> (last.value.n # last.node.width)
        /\ last.errors \subseteq
              {"reset reference is not the same size", "cannot reference itself in reset"}
        /\ last.raised = ""

C13_Witness ==
    /\ Validated /\ last.prop = "reset" /\ last.value.form = "node"
    /\ last.value.s = OtherPath
    /\ last.value.n = 16 /\ last.node.width = 4
    /\ last.errors = {"reset reference is not the same size"}

\* C14: validating errextbus records an error iff the value is true and the
\* instance is not external.
C14_ErrextbusNeedsExternal ==
    (Validated /\ last.prop = "errextbus") =>
        /\ (last.errors # {}) <=> (last.value = BoolV(TRUE) /\ ~last.node.external)
        /\ last.raised = ""

C14_Witness ==
    /\ Validated /\ last.prop = "errextbus"
    /\ last.value = BoolV(TRUE) /\ ~last.node.external
    /\ last.errors # {} /\ last.severity = "error"

Looked == last.op = "lookup_property"

\* C15: lookup_property(name) returns the built-in rule when name is a
\* built-in name, whatever users registered, and that rule's own name is the
\* name asked for; it returns the user-registered rule only when name is no
\* built-in name; and it returns None, raising nothing, when name is in
\* neither mapping.
C15_LookupPrefersBuiltin ==
    Looked =>
        /\ last.raised = ""
        /\ IF last.prop \in PropNames
           THEN /\ last.rule = PropClass(last.prop)
                /\ get_name(last.rule) = last.prop
           ELSE IF last.prop \in DOMAIN user_properties
           THEN last.rule = user_properties[last.prop]
           ELSE last.rule = NoRule

C15_Witness ==
    /\ Looked /\ last.prop = "sync"
    /\ "sync" \in DOMAIN user_properties
    /\ last.rule = PropClass("sync")

\* The mutex groups of the catalog and the members of a group present in
\* the dictionary.
MutexGroups == { rdl_properties(p).mutex_group : p \in PropNames } \ {""}
Present(g) == { p \in DOMAIN properties : rdl_properties(p).mutex_group = g }
PairGroups == { rdl_properties(p).mutex_group : p \in PairedProps }

\* C16 (as stated): in every reachable state at most one property of each
\* mutex group, the alias groups included, is present in the dictionary.
C16_MutexGroupsExclusive ==
    \A g \in MutexGroups : Cardinality(Present(g)) <= 1

\* C16 (amended): at most one property of each paired-boolean group is
\* present in every reachable state, while a successful assignment of an
\* alias leaves two members of its alias group present.
C16_PairGroupsExclusive ==
    /\ \A g \in PairGroups : Cardinality(Present(g)) <= 1
    /\ (Assigned /\ Succeeded /\ last.prop \in AliasProps) =>
          Present(rdl_properties(last.prop).mutex_group) = {last.prop, Canonical(last.prop)}

C16_Witness ==
    /\ Assigned /\ Succeeded /\ last.prop = "lsb0" /\ ~Truthy(last.value)
    /\ Has(last.pre, "msb0")
    /\ Present("M") = {"lsb0"}

\* C17: a key present before a call is present after it, unless it is a
\* paired boolean whose opposite the call assigned successfully; and a failed
\* assignment leaves the dictionary exactly as it was, whatever the call
\* (assign_value, get_default, validate).
C17_NoUnassign ==
    /\ \A k \in DOMAIN last.pre :
          ~Has(properties, k) =>
              /\ k \in PairedProps
              /\ Assigned /\ Succeeded /\ last.prop = Opposite(k)
    /\ (Assigned /\ ~Succeeded) => properties = last.pre
    /\ (Defaulted \/ Validated) => properties = last.pre

C17_Witness ==
    /\ Assigned /\ ~Succeeded /\ Bindable(last.prop)
    /\ last.prop \in PairedProps
    /\ Has(last.pre, Opposite(last.prop))
    /\ properties = last.pre

====
